---- MODULE Spec2Model ----
(***************************************************************************)
(* ConvoSplit (src/main.py): the life of one /split conversation.  A new   *)
(* channel is provisioned with overwrites derived from the originating     *)
(* channel, await_end waits for the end of the conversation, the channel   *)
(* is locked, save_messages archives its history and conclude deletes the  *)
(* channel and sends the archive.                                           *)
(***************************************************************************)
EXTENDS Integers, Sequences, FiniteSets, TLC

VARIABLES
    pc,          \* where each split task stands
    req,         \* the arguments of each /split invocation
    overwrites,  \* create_channel's local dict `overwrites`
    chan,        \* the conversation channel on the platform
    listener,    \* the wait_for listener of await_end
    idle,        \* minutes the armed wait has been running
    reason,      \* how await_end returned
    page,        \* what channel.history() still has to yield
    file,        \* the archive file in convos/
    sent,        \* the sends of the archive, in order
    replies,     \* what the requester was told through ctx
    err,         \* the exception that left split, if any
    my_perms,    \* the module-level object MY_PERMS, shared by all tasks
    perms,       \* the bot's permissions that notify_members looked up
    taken        \* datetime.utcnow() - start as conclude read it, in seconds

vars == <<pc, req, overwrites, chan, listener, idle, reason, page, file, sent,
          replies, err, my_perms, perms, taken>>

(***************************************************************************)
(* Bounds of the model.                                                    *)
(***************************************************************************)
NumConvs == 2
MaxMsgs == 3
MaxHistory == 102
MaxConcMsgs == 2

Convs == 1..NumConvs

(***************************************************************************)
(* Principals and permission overwrites.                                   *)
(***************************************************************************)
ME == "bot"
EVERYONE == "everyone"
AUTHOR == "alice"
Users == {"alice", "bob", "carol"}

\* A PermissionOverwrite field is True ("T"), False ("F") or None ("N").
PermissionOverwrite(r, h, s, m, e) ==
    [read_messages |-> r, read_message_history |-> h, send_messages |-> s,
     manage_permissions |-> m, embed_links |-> e]

MY_PERMS == PermissionOverwrite("T", "T", "T", "T", "T")

\* discord.PermissionOverwrite(read_messages=True, send_messages=True)
ReadSend == PermissionOverwrite("T", "N", "T", "N", "N")

\* discord.PermissionOverwrite(read_messages=False, send_messages=False)
NoReadSend == PermissionOverwrite("F", "N", "F", "N", "N")

EmptyMap == [p \in {} |-> ReadSend]

\* d[k] = v of a Python dict
Put(d, k, v) == [p \in DOMAIN d \cup {k} |-> IF p = k THEN v ELSE d[p]]

\* d.setdefault(k, v)
SetDefault(d, k, v) == IF k \in DOMAIN d THEN d ELSE Put(d, k, v)

Range(s) == {s[i] : i \in DOMAIN s}

\* the loop "for user_or_role, overws in overwrites.items()" skipping nobody
DenySendAll(d) ==
    [p \in DOMAIN d |-> [d[p] EXCEPT !.send_messages = "F"]]

\* the loop "for user_or_role, overws in overwrites.items()"
DenySend(d) ==
    [p \in DOMAIN d |-> IF p = ME THEN d[p] ELSE [d[p] EXCEPT !.send_messages = "F"]]

\* the loop "for member in members"
RECURSIVE AllowMembers(_, _)
AllowMembers(d, members) ==
    IF members = <<>> THEN d
    ELSE AllowMembers(Put(d, Head(members), ReadSend), Tail(members))

\* the dict `overwrites` that create_channel hands to channel.edit; the
\* value under the bot's key is the module-level object itself
Scope(origin, members, author) ==
    LET mirrored == origin
        mine == Put(mirrored, ME, my_perms)
        dflt == SetDefault(mine, EVERYONE, ReadSend)
    IN  IF members # <<>>
        THEN Put(AllowMembers(DenySend(dflt), members), author, ReadSend)
        ELSE dflt

\* the module-level object after create_channel: the loop over
\* overwrites.items() assigns to the objects in the dict, and the object
\* under the bot's key is MY_PERMS
MyPermsAfter(origin, members) ==
    LET mine == Put(origin, ME, my_perms)
        dflt == SetDefault(mine, EVERYONE, ReadSend)
    IN  IF members # <<>> THEN DenySend(dflt)[ME] ELSE my_perms

\* the overwrites of the lock step
LockedScope == Put(Put(EmptyMap, EVERYONE, NoReadSend), ME, my_perms)

\* channel.edit(overwrites=...) adding to the overwrites of the channel
MergedOverwrites(current, new) ==
    [p \in DOMAIN current \cup DOMAIN new |->
        IF p \in DOMAIN new THEN new[p] ELSE current[p]]

\* channel.edit(overwrites=...) sends the whole list of overwrites: the
\* channel has the new ones and no other
EditedOverwrites(current, new) == new

\* what permissions_for(ctx.me) tells notify_members
Permissions(send, read, attach) ==
    [send_messages |-> send, read_messages |-> read, attach_files |-> attach]

NoPermissions == Permissions(FALSE, FALSE, FALSE)
AllPermissions == Permissions(TRUE, TRUE, TRUE)
Lookups == {Permissions(s, r, a) : s \in BOOLEAN, r \in BOOLEAN, a \in BOOLEAN}

\* perms.send_messages and perms.read_messages and perms.attach_files
CanAttach(p) == p.send_messages /\ p.read_messages /\ p.attach_files

\* "if not (p2 and p1)"
WarnedUnlessBoth(p1, p2) == ~(p2 /\ p1)

\* "if not (p2 or p1)"
Warned(p1, p2) == ~(p2 \/ p1)

(***************************************************************************)
(* Messages and the termination predicate.                                 *)
(***************************************************************************)
Whitespace == {" ", "\t", "\n"}

UpperCase == <<"G", "O", "D", "B", "Y", "E">>
LowerCase == <<"g", "o", "d", "b", "y", "e">>

\* str.casefold, one character
FoldChar(ch) ==
    IF \E i \in DOMAIN UpperCase : UpperCase[i] = ch
    THEN LowerCase[CHOOSE i \in DOMAIN UpperCase : UpperCase[i] = ch]
    ELSE ch

CaseFold(content) == [i \in DOMAIN content |-> FoldChar(content[i])]

\* str.lstrip
RECURSIVE LStrip(_)
LStrip(content) ==
    IF content # <<>> /\ Head(content) \in Whitespace
    THEN LStrip(Tail(content))
    ELSE content

StartsWith(content, prefix) ==
    /\ Len(content) >= Len(prefix)
    /\ SubSeq(content, 1, Len(prefix)) = prefix

is_goodbye(content) ==
    StartsWith(CaseFold(LStrip(content)), <<"g", "o", "o", "d", "b", "y", "e">>)

\* 'Goodbye.', what await_end and /exit send
GOODBYE == <<"G", "o", "o", "d", "b", "y", "e", ".">>
\* other contents a message may have
HELLO == <<"h", "i">>
SHOUT == <<" ", "G", "O", "O", "D", "B", "Y", "E">>
MOVED == <<"T", "h", "o", "s", "e">>

Message(id, author, content) == [id |-> id, author |-> author, content |-> content]

\* "msg.author.id == client.user.id and is_goodbye(msg.content)"
IsTermination(msg) == msg.author = ME /\ is_goodbye(msg.content)

(***************************************************************************)
(* The requests.                                                           *)
(***************************************************************************)
\* memberopts: member1 .. member5
NumMemberOpts == 5

Request(origin, members, dest, timeout) ==
    [origin |-> origin, members |-> members, dest |-> dest, timeout |-> timeout]

NoRequest == Request(EmptyMap, <<>>, "none", 1)

ReadOnly == PermissionOverwrite("T", "N", "F", "N", "N")

\* the overwrites the originating channel may have
OriginPrincipals == {EVERYONE, "role", ME, "alice", "bob"}
Origins == UNION {[D -> {ReadSend, ReadOnly}] : D \in SUBSET OriginPrincipals}

\* the members a request may name: any user, the bot included
MemberLists == UNION {[1..n -> {"alice", "bob", ME}] : n \in 0..NumMemberOpts}

ScopeRequests == {Request(o, m, "none", 1) : o \in Origins, m \in MemberLists}

Requests ==
    {Request(o, m, d, t) :
        o \in {EmptyMap, Put(EmptyMap, "carol", ReadSend)},
        m \in {<<>>, <<"bob">>, <<ME>>},
        d \in {"none", "dest"},
        t \in {1, 2}}

(***************************************************************************)
(* The state after the module is loaded: no /split is running.             *)
(***************************************************************************)
NoMessage == Message(0, "", <<>>)
NoError == [site |-> "", exc |-> ""]
Error(site, exc) == [site |-> site, exc |-> exc]

Init ==
    /\ pc = [c \in Convs |-> "idle"]
    /\ req = [c \in Convs |-> NoRequest]
    /\ overwrites = [c \in Convs |-> EmptyMap]
    /\ chan = [c \in Convs |-> [state |-> "none", ovw |-> EmptyMap, hist |-> <<>>]]
    /\ listener = [c \in Convs |-> [state |-> "off", msg |-> NoMessage]]
    /\ idle = [c \in Convs |-> 0]
    /\ reason = [c \in Convs |-> "none"]
    /\ page = [c \in Convs |-> <<>>]
    /\ file = [c \in Convs |-> [state |-> "absent", lines |-> <<>>]]
    /\ sent = [c \in Convs |-> <<>>]
    /\ replies = [c \in Convs |-> <<>>]
    /\ err = [c \in Convs |-> NoError]
    /\ my_perms = MY_PERMS
    /\ perms = [c \in Convs |-> [origin |-> NoPermissions, dest |-> NoPermissions]]
    /\ taken = [c \in Convs |-> 0]

(***************************************************************************)
(* split, up to create_channel.                                            *)
(***************************************************************************)
\* an exception leaves split
Raise(c, site, exc) ==
    /\ pc' = [pc EXCEPT ![c] = "raised"]
    /\ err' = [err EXCEPT ![c] = Error(site, exc)]

\* split is invoked: the members are collected and the response deferred
SplitWith(c, requests) ==
    /\ pc[c] = "idle"
    /\ \E r \in requests : req' = [req EXCEPT ![c] = r]
    /\ pc' = [pc EXCEPT ![c] = "fetch_channels"]
    /\ UNCHANGED <<my_perms, perms, taken, overwrites, chan, listener, idle, reason, page, file, sent,
                   replies, err>>

Split(c) == SplitWith(c, Requests)

\* create_channel: the category lookup, then the overwrites
FetchChannels(c) ==
    /\ pc[c] = "fetch_channels"
    /\ \E found \in BOOLEAN :
        IF found
        THEN /\ overwrites' = [overwrites EXCEPT
                    ![c] = Scope(req[c].origin, req[c].members, AUTHOR)]
             /\ my_perms' = MyPermsAfter(req[c].origin, req[c].members)
             /\ pc' = [pc EXCEPT ![c] = "create_text_channel"]
             /\ UNCHANGED replies
        ELSE /\ replies' = [replies EXCEPT ![c] = Append(@, "NO_CAT_ERROR")]
             /\ pc' = [pc EXCEPT ![c] = "done"]
             /\ UNCHANGED <<overwrites, my_perms>>
    /\ UNCHANGED <<perms, taken, req, chan, listener, idle, reason, page, file, sent, err>>

\* create_channel: cat.create_text_channel
CreateTextChannel(c) ==
    /\ pc[c] = "create_text_channel"
    /\ \E forbidden \in BOOLEAN :
        IF forbidden
        THEN /\ replies' = [replies EXCEPT ![c] = Append(@, "NO_PERMS_ERROR")]
             /\ pc' = [pc EXCEPT ![c] = "done"]
             /\ UNCHANGED chan
        ELSE /\ chan' = [chan EXCEPT ![c].state = "live"]
             /\ pc' = [pc EXCEPT ![c] = "edit"]
             /\ UNCHANGED replies
    /\ UNCHANGED <<my_perms, perms, taken, req, overwrites, listener, idle, reason, page, file, sent, err>>

\* create_channel's second except clause without its "return None"
EditOverwritesGoesOn(c) ==
    /\ pc[c] = "edit"
    /\ IF chan[c].state # "live"
       THEN /\ Raise(c, "create_channel.edit", "NotFound")
            /\ UNCHANGED <<chan, replies>>
       ELSE \E forbidden \in BOOLEAN :
            IF forbidden
            THEN /\ replies' = [replies EXCEPT ![c] = Append(@, "NO_PERMS_ERROR")]
                 /\ pc' = [pc EXCEPT ![c] = "notify"]
                 /\ UNCHANGED <<chan, err>>
            ELSE /\ chan' = [chan EXCEPT
                        ![c].ovw = EditedOverwrites(@, overwrites[c])]
                 /\ pc' = [pc EXCEPT ![c] = "notify"]
                 /\ UNCHANGED <<replies, err>>
    /\ UNCHANGED <<my_perms, perms, taken, req, overwrites, listener, idle, reason,
                   page, file, sent>>

\* create_channel: channel.edit(overwrites=overwrites)
EditOverwrites(c) ==
    /\ pc[c] = "edit"
    /\ IF chan[c].state # "live"
       THEN /\ Raise(c, "create_channel.edit", "NotFound")
            /\ UNCHANGED <<chan, replies>>
       ELSE \E forbidden \in BOOLEAN :
            IF forbidden
            THEN /\ replies' = [replies EXCEPT ![c] = Append(@, "NO_PERMS_ERROR")]
                 /\ pc' = [pc EXCEPT ![c] = "done"]
                 /\ UNCHANGED <<chan, err>>
            ELSE /\ chan' = [chan EXCEPT
                        ![c].ovw = EditedOverwrites(@, overwrites[c])]
                 /\ pc' = [pc EXCEPT ![c] = "notify"]
                 /\ UNCHANGED <<replies, err>>
    /\ UNCHANGED <<my_perms, perms, taken, req, overwrites, listener, idle, reason,
                   page, file, sent>>

(***************************************************************************)
(* The platform: who may read and write in a channel, and what a new       *)
(* message does.                                                           *)
(***************************************************************************)
\* a member's own overwrite decides, else the default role's, else the guild
Effective(ovw, who, field) ==
    IF who \in DOMAIN ovw /\ ovw[who][field] # "N"
    THEN ovw[who][field] = "T"
    ELSE IF EVERYONE \in DOMAIN ovw /\ ovw[EVERYONE][field] # "N"
         THEN ovw[EVERYONE][field] = "T"
         ELSE TRUE

CanRead(c, who) ==
    /\ chan[c].state = "live"
    /\ Effective(chan[c].ovw, who, "read_messages")

CanSend(c, who) ==
    /\ CanRead(c, who)
    /\ Effective(chan[c].ovw, who, "send_messages")

\* client.wait_for's listener is removed when its future is resolved: a
\* message reaches the listener only while it is registered
Dispatched(l, msg) ==
    IF l.state = "armed" THEN [state |-> "fired", msg |-> msg] ELSE l

\* a wait_for check that lets every message through
CheckAny(d, c) == TRUE

\* check=lambda m: m.channel.id == channel.id, for the listener of
\* conversation d and a message in the channel of conversation c
Check(d, c) == d = c

\* a message in the channel of conversation c is dispatched to every
\* listener of the client, and each one applies its check
Heard(c, msg) ==
    listener' = [d \in Convs |->
        IF Check(d, c) THEN Dispatched(listener[d], msg) ELSE listener[d]]

\* a message is created in the channel and dispatched to the listeners
Post(c, author, content) ==
    LET msg == Message(Len(chan[c].hist) + 1, author, content)
    IN  /\ chan' = [chan EXCEPT ![c].hist = Append(@, msg)]
        /\ Heard(c, msg)

\* one of the posters writes one of the contents in the conversation channel
UserPostBy(c, posters, contents) ==
    /\ Len(chan[c].hist) < MaxMsgs
    /\ \E who \in posters, content \in contents :
        /\ CanSend(c, who)
        /\ Post(c, who, content)
    /\ UNCHANGED <<my_perms, perms, taken, pc, req, overwrites, idle, reason, page, file, sent, replies, err>>

\* somebody writes in the conversation channel
UserPost(c) == UserPostBy(c, {"alice", "carol"}, {HELLO, SHOUT})

\* exit: somebody runs /exit in the conversation channel
Exit(c) ==
    /\ Len(chan[c].hist) < MaxMsgs
    /\ \E who \in Users : CanRead(c, who)
    /\ Post(c, ME, GOODBYE)
    /\ UNCHANGED <<my_perms, perms, taken, pc, req, overwrites, idle, reason, page, file, sent, replies, err>>

\* the channel is deleted by somebody else
ExternalDelete(c) ==
    /\ chan[c].state = "live"
    /\ pc[c] \notin {"idle", "done", "raised"}
    /\ chan' = [chan EXCEPT ![c].state = "gone"]
    /\ UNCHANGED <<my_perms, perms, taken, pc, req, overwrites, listener, idle, reason, page, file, sent,
                   replies, err>>

(***************************************************************************)
(* split, from notify_members to the lock.                                 *)
(***************************************************************************)
\* notify_members, then await_end's first client.wait_for
NotifyWith(c, lookups) ==
    /\ pc[c] = "notify"
    /\ \E origin \in lookups, other \in lookups :
        LET dest == IF req[c].dest # "none" THEN other ELSE origin
            p1 == CanAttach(origin)
            p2 == CanAttach(dest)
        IN  /\ perms' = [perms EXCEPT ![c] = [origin |-> origin, dest |-> dest]]
            /\ replies' = [replies EXCEPT ![c] =
                    @ \o <<"SPLIT_RESPONSE">>
                      \o (IF Warned(p1, p2) THEN <<"PERMS_WARNING">> ELSE <<>>)
                      \o (IF req[c].members # <<>> THEN <<"mentions">> ELSE <<>>)]
    /\ listener' = [listener EXCEPT ![c] = [state |-> "armed", msg |-> NoMessage]]
    /\ idle' = [idle EXCEPT ![c] = 0]
    /\ pc' = [pc EXCEPT ![c] = "await"]
    /\ UNCHANGED <<my_perms, taken, req, overwrites, chan, reason, page, file, sent, err>>

\* the bot may send, read and attach files wherever it looks
NotifyMembers(c) == NotifyWith(c, {AllPermissions})

\* split with the lock step left out
AfterAwaitEndUnlocked == "save_messages"

\* split: what follows "await await_end(channel, timeout)"
AfterAwaitEnd == "lock"

\* a minute passes while await_end waits
Tick(c) ==
    /\ pc[c] = "await"
    /\ listener[c].state = "armed"
    /\ idle[c] < req[c].timeout
    /\ idle' = [idle EXCEPT ![c] = @ + 1]
    /\ UNCHANGED <<my_perms, perms, taken, pc, req, overwrites, chan, listener, reason, page, file, sent,
                   replies, err>>

\* client.wait_for without timeout=
Untimed(c) ==
    /\ pc[c] = "await"
    /\ FALSE
    /\ UNCHANGED vars

\* await_end: asyncio.TimeoutError
TimeoutError(c) ==
    /\ pc[c] = "await"
    /\ listener[c].state = "armed"
    /\ idle[c] = req[c].timeout
    /\ listener' = [listener EXCEPT ![c].state = "off"]
    /\ pc' = [pc EXCEPT ![c] = "send_goodbye"]
    /\ UNCHANGED <<my_perms, perms, taken, req, overwrites, chan, idle, reason, page, file, sent, replies, err>>

\* await_end: channel.send('Goodbye.') and return
SendGoodbye(c) ==
    /\ pc[c] = "send_goodbye"
    /\ IF chan[c].state = "live"
       THEN /\ Post(c, ME, GOODBYE)
            /\ reason' = [reason EXCEPT ![c] = "Timeout"]
            /\ pc' = [pc EXCEPT ![c] = AfterAwaitEnd]
            /\ UNCHANGED err
       ELSE /\ Raise(c, "channel.send", "NotFound")
            /\ UNCHANGED <<chan, listener, reason>>
    /\ UNCHANGED <<my_perms, perms, taken, req, overwrites, idle, page, file, sent, replies>>

\* await_end: wait_for returned a message
Received(c) ==
    /\ pc[c] = "await"
    /\ listener[c].state = "fired"
    /\ IF IsTermination(listener[c].msg)
       THEN /\ reason' = [reason EXCEPT ![c] = "ExplicitSignal"]
            /\ listener' = [listener EXCEPT ![c] = [state |-> "off", msg |-> NoMessage]]
            /\ pc' = [pc EXCEPT ![c] = AfterAwaitEnd]
            /\ UNCHANGED idle
       ELSE /\ listener' = [listener EXCEPT ![c] = [state |-> "armed", msg |-> NoMessage]]
            /\ idle' = [idle EXCEPT ![c] = 0]
            /\ pc' = [pc EXCEPT ![c] = "await"]
            /\ UNCHANGED reason
    /\ UNCHANGED <<my_perms, perms, taken, req, overwrites, chan, page, file, sent, replies, err>>

\* split: channel.edit(overwrites={default_role: ..., me: MY_PERMS})
Lock(c) ==
    /\ pc[c] = "lock"
    /\ IF chan[c].state # "live"
       THEN /\ Raise(c, "channel.edit", "NotFound")
            /\ UNCHANGED chan
       ELSE \E forbidden \in BOOLEAN :
            IF forbidden
            THEN /\ Raise(c, "channel.edit", "Forbidden")
                 /\ UNCHANGED chan
            ELSE /\ chan' = [chan EXCEPT ![c].ovw = EditedOverwrites(@, LockedScope)]
                 /\ pc' = [pc EXCEPT ![c] = "save_messages"]
                 /\ UNCHANGED err
    /\ UNCHANGED <<my_perms, perms, taken, req, overwrites, listener, idle, reason, page, file, sent, replies>>

(***************************************************************************)
(* save_messages.                                                          *)
(***************************************************************************)
SEPARATOR == "--New Message Starts After Two Line Feeds After This Line"
TERMINATOR == "--New Message Starts After Two Line Feeds After This Line--"

\* channel.history(oldest_first=True) is called without limit=, and yields
\* the oldest messages up to discord.py's default limit
HistoryLimit == 100

Min(a, b) == IF a < b THEN a ELSE b

History(hist) == SubSeq(hist, 1, Min(Len(hist), HistoryLimit))

\* format_message: the headers and the body of one message
format_message(msg) == [id |-> msg.id, author |-> msg.author, text |-> msg.content]

NoEntry == format_message(NoMessage)

\* one dump.write
Written(line, entry) == [line |-> line, entry |-> entry]

\* save_messages: aiofiles.open(filename, 'w')
SaveOpen(c) ==
    /\ pc[c] = "save_messages"
    /\ file' = [file EXCEPT ![c] = [state |-> "open", lines |-> <<>>]]
    /\ pc' = [pc EXCEPT ![c] = "history"]
    /\ UNCHANGED <<my_perms, perms, taken, req, overwrites, chan, listener, idle, reason, page, sent,
                   replies, err>>

\* split catching what save_messages raises and going on to conclude
SaveHistoryCaught(c) ==
    /\ pc[c] = "history"
    /\ \E failed \in BOOLEAN :
        IF failed \/ chan[c].state # "live"
        THEN /\ err' = [err EXCEPT ![c] = Error("channel.history",
                      IF chan[c].state # "live" THEN "NotFound" ELSE "HTTPException")]
             /\ pc' = [pc EXCEPT ![c] = "conclude"]
             /\ file' = [file EXCEPT ![c].state = "closed"]
             /\ UNCHANGED page
        ELSE /\ page' = [page EXCEPT ![c] = History(chan[c].hist)]
             /\ pc' = [pc EXCEPT ![c] = "write"]
             /\ UNCHANGED <<file, err>>
    /\ UNCHANGED <<my_perms, perms, taken, req, overwrites, chan, listener, idle, reason,
                   sent, replies>>

\* save_messages: the history is fetched, or the fetch fails
SaveHistory(c) ==
    /\ pc[c] = "history"
    /\ \E failed \in BOOLEAN :
        IF failed \/ chan[c].state # "live"
        THEN /\ Raise(c, "channel.history",
                      IF chan[c].state # "live" THEN "NotFound" ELSE "HTTPException")
             /\ file' = [file EXCEPT ![c].state = "closed"]
             /\ UNCHANGED page
        ELSE /\ page' = [page EXCEPT ![c] = History(chan[c].hist)]
             /\ pc' = [pc EXCEPT ![c] = "write"]
             /\ UNCHANGED <<file, err>>
    /\ UNCHANGED <<my_perms, perms, taken, req, overwrites, chan, listener, idle, reason, sent, replies>>

\* save_messages: one turn of "async for msg in channel.history(...)"
SaveMessage(c) ==
    /\ pc[c] = "write"
    /\ page[c] # <<>>
    /\ LET msg == Head(page[c])
       IN  IF IsTermination(msg)
           THEN /\ page' = [page EXCEPT ![c] = Tail(@)]
                /\ UNCHANGED <<pc, file, err>>
           ELSE \E failed \in BOOLEAN :
                IF failed
                THEN /\ Raise(c, "reaction.users", "HTTPException")
                     /\ file' = [file EXCEPT ![c].state = "closed"]
                     /\ UNCHANGED page
                ELSE /\ file' = [file EXCEPT ![c].lines =
                            Append(@, Written(SEPARATOR, format_message(msg)))]
                     /\ page' = [page EXCEPT ![c] = Tail(@)]
                     /\ UNCHANGED <<pc, err>>
    /\ UNCHANGED <<my_perms, perms, taken, req, overwrites, chan, listener, idle, reason, sent, replies>>

\* save_messages: the terminator line, and the file is closed
SaveEnd(c) ==
    /\ pc[c] = "write"
    /\ page[c] = <<>>
    /\ file' = [file EXCEPT ![c] =
            [state |-> "closed", lines |-> Append(@.lines, Written(TERMINATOR, NoEntry))]]
    /\ pc' = [pc EXCEPT ![c] = "conclude"]
    /\ UNCHANGED <<my_perms, perms, taken, req, overwrites, chan, listener, idle, reason, page, sent,
                   replies, err>>

(***************************************************************************)
(* conclude.                                                               *)
(***************************************************************************)
\* the elapsed times (datetime.utcnow() - start) the model tries, in seconds
Elapsed == {0, 300, 599, 600, 900, 86700}

SecondsPerDay == 86400

\* timedelta.seconds: the seconds within the day, the days left out
TimedeltaSeconds(elapsed) == elapsed % SecondsPerDay

\* "10 * 60"
FreshSeconds == 600

Sending(c, to, ok) == sent' = [sent EXCEPT ![c] = Append(@, [to |-> to, ok |-> ok])]

Unlink(c) == file' = [file EXCEPT ![c].state = "removed"]

\* conclude without channel.delete
ConcludeKeep(c) ==
    /\ pc[c] = "conclude"
    /\ pc' = [pc EXCEPT ![c] = IF req[c].dest # "none" THEN "dest.send" ELSE "fallback"]
    /\ UNCHANGED <<my_perms, perms, taken, req, overwrites, chan, listener, idle, reason, page, file, sent,
                   replies, err>>

\* conclude: channel.delete
ConcludeDelete(c) ==
    /\ pc[c] = "conclude"
    /\ IF chan[c].state # "live"
       THEN /\ Raise(c, "channel.delete", "NotFound")
            /\ UNCHANGED chan
       ELSE \E forbidden \in BOOLEAN :
            IF forbidden
            THEN /\ Raise(c, "channel.delete", "Forbidden")
                 /\ UNCHANGED chan
            ELSE /\ chan' = [chan EXCEPT ![c].state = "deleted"]
                 /\ pc' = [pc EXCEPT ![c] =
                        IF req[c].dest # "none" THEN "dest.send" ELSE "fallback"]
                 /\ UNCHANGED err
    /\ UNCHANGED <<my_perms, perms, taken, req, overwrites, listener, idle, reason, page, file, sent, replies>>

\* conclude's try/else without its "return": the fallback follows a
\* delivery to dest as well
SendDestThenFallback(c) ==
    /\ pc[c] = "dest.send"
    /\ \E ok \in BOOLEAN :
        /\ Sending(c, "dest", ok)
        /\ pc' = [pc EXCEPT ![c] = "fallback"]
        /\ UNCHANGED file
    /\ UNCHANGED <<my_perms, perms, taken, req, overwrites, chan, listener, idle, reason,
                   page, replies, err>>

\* conclude: dest.send(content, file=attachment)
SendDest(c) ==
    /\ pc[c] = "dest.send"
    /\ \E ok \in BOOLEAN :
        /\ Sending(c, "dest", ok)
        /\ IF ok
           THEN /\ Unlink(c)
                /\ pc' = [pc EXCEPT ![c] = "done"]
           ELSE /\ pc' = [pc EXCEPT ![c] = "fallback"]
                /\ UNCHANGED file
    /\ UNCHANGED <<my_perms, perms, taken, req, overwrites, chan, listener, idle, reason, page, replies, err>>

\* conclude: ctx.webhook.send or ctx.send, by the time elapsed
SendFallbackAfter(c, durations) ==
    /\ pc[c] = "fallback"
    /\ \E elapsed \in durations, ok \in BOOLEAN :
        /\ taken' = [taken EXCEPT ![c] = elapsed]
        /\ IF TimedeltaSeconds(elapsed) < FreshSeconds
           THEN /\ Sending(c, "webhook", ok)
                /\ IF ok
                   THEN /\ Unlink(c)
                        /\ pc' = [pc EXCEPT ![c] = "done"]
                        /\ UNCHANGED err
                   ELSE /\ Raise(c, "webhook.send", "Forbidden")
                        /\ UNCHANGED file
           ELSE /\ Sending(c, "origin", ok)
                /\ Unlink(c)
                /\ pc' = [pc EXCEPT ![c] = "done"]
                /\ UNCHANGED err
    /\ UNCHANGED <<my_perms, perms, req, overwrites, chan, listener, idle, reason, page,
                   replies>>

\* the fallback, whatever the time since the start of the window
SendFallback(c) == SendFallbackAfter(c, Elapsed)

(***************************************************************************)
(* One conversation from /split to its end.                                *)
(***************************************************************************)
Next ==
    \/ Split(1)
    \/ FetchChannels(1)
    \/ CreateTextChannel(1)
    \/ EditOverwrites(1)
    \/ NotifyMembers(1)
    \/ UserPost(1)
    \/ Exit(1)
    \/ ExternalDelete(1)
    \/ Tick(1)
    \/ TimeoutError(1)
    \/ SendGoodbye(1)
    \/ Received(1)
    \/ Lock(1)
    \/ SaveOpen(1)
    \/ SaveHistory(1)
    \/ SaveMessage(1)
    \/ SaveEnd(1)
    \/ ConcludeDelete(1)
    \/ SendDest(1)
    \/ SendFallback(1)

Spec == Init /\ [][Next]_vars

Last(s) == s[Len(s)]

\* the messages of a history that are no termination signal, in order
Genuine(hist) == SelectSeq(hist, LAMBDA m : ~IsTermination(m))

Records(lines) == SelectSeq(lines, LAMBDA w : w.line = SEPARATOR)
Terminators(lines) == SelectSeq(lines, LAMBDA w : w.line = TERMINATOR)


\* C2: the overwrites applied at provisioning and at lock both hold the bot's
\* entry with full control, whoever the request names.
BotFullControl ==
    \A c \in Convs :
        /\ LockedScope[ME] = MY_PERMS
        /\ chan[c].ovw # EmptyMap =>
            /\ ME \in DOMAIN chan[c].ovw
            /\ chan[c].ovw[ME] = MY_PERMS

\* C5: await_end resolves once, with Timeout only when the configured time
\* ran out on the armed wait, and with ExplicitSignal upon the first
\* termination signal created in the channel while it waits, whatever came
\* right before that signal.
AwaitEndResolves ==
    [][\A c \in Convs :
        /\ reason[c] # "none" => reason'[c] = reason[c]
        /\ (pc[c] = "await" /\ pc'[c] = "send_goodbye") => idle[c] = req[c].timeout
        /\ (/\ pc[c] = "await"
            /\ Len(chan'[c].hist) = Len(chan[c].hist) + 1
            /\ IsTermination(Last(chan'[c].hist)))
                => /\ listener'[c].state = "fired"
                   /\ IsTermination(listener'[c].msg)]_vars

\* C7: the channel is locked before the archive is begun, and split deletes
\* it only once it is locked and the archive is complete, terminator line
\* included.
LockArchiveDelete ==
    \A c \in Convs :
        /\ file[c].state # "absent" => chan[c].ovw = LockedScope
        /\ chan[c].state = "deleted" =>
            /\ chan[c].ovw = LockedScope
            /\ file[c].state \in {"closed", "removed"}
            /\ file[c].lines # <<>>
            /\ Last(file[c].lines).line = TERMINATOR

\* split deleted a channel that held genuine messages
DeletedArchived ==
    \E c \in Convs :
        /\ chan[c].state = "deleted"
        /\ Len(Genuine(chan[c].hist)) >= 2
        /\ Len(file[c].lines) >= 3

\* C8 as stated: the archive has been sent somewhere before the channel is
\* deleted.
DeliveryBeforeDelete ==
    \A c \in Convs : chan[c].state = "deleted" => sent[c] # <<>>

Abandoned(s) == s.to = "origin" /\ ~s.ok

\* C8, amended: conclude deletes the channel first and sends the archive only
\* after that, to the preferred destination and on denial to the fallback;
\* the local file is removed only once the archive was accepted or given up.
DeleteBeforeDelivery ==
    \A c \in Convs :
        /\ sent[c] # <<>> => chan[c].state = "deleted"
        /\ \A i \in DOMAIN sent[c] :
            sent[c][i].to # "dest" =>
                \/ i = 1 /\ req[c].dest = "none"
                \/ i = 2 /\ sent[c][1] = [to |-> "dest", ok |-> FALSE]
        /\ file[c].state = "removed" =>
            /\ sent[c] # <<>>
            /\ Last(sent[c]).ok \/ Abandoned(Last(sent[c]))

\* the preferred destination denied the archive and the fallback took it
FallbackAccepted ==
    \E c \in Convs :
        /\ Len(sent[c]) = 2
        /\ ~sent[c][1].ok
        /\ sent[c][2].ok
        /\ file[c].state = "removed"
        /\ chan[c].state = "deleted"

\* C9: once the archive file was created, it is gone from local storage when
\* the flow has ended, however it ended.
ArtifactRemoved ==
    \A c \in Convs :
        (pc[c] \in {"done", "raised"} /\ file[c].state # "absent") =>
            file[c].state = "removed"

\* C10: a denied send of the archive never leaves conclude as an error: after
\* a denied fallback send the delivery is given up and the flow is done.
DeliveryNeverRaises ==
    \A c \in Convs :
        /\ pc[c] = "raised" =>
            err[c].site \notin {"dest.send", "webhook.send", "ctx.send"}
        /\ (sent[c] # <<>> /\ Last(sent[c]).to # "dest" /\ ~Last(sent[c]).ok) =>
            /\ pc[c] = "done"
            /\ file[c].state = "removed"

\* the sends of the archive that were accepted
Accepted(c) == {i \in DOMAIN sent[c] : sent[c][i].ok}

\* C11: the archive of a conversation is accepted by at most one destination,
\* and nothing is sent after dest has accepted it.
OneArchive ==
    \A c \in Convs :
        /\ Cardinality(Accepted(c)) <= 1
        /\ \A i \in DOMAIN sent[c] :
            (sent[c][i].to = "dest" /\ sent[c][i].ok) => Len(sent[c]) = i

DestAccepted ==
    /\ pc[1] = "done"
    /\ sent[1] = <<[to |-> "dest", ok |-> TRUE]>>
    /\ file[1].state = "removed"

\* C12: deleting a channel that is already gone is no error: conclude never
\* ends with the not-found of channel.delete.
DeleteIdempotent ==
    \A c \in Convs : err[c] # Error("channel.delete", "NotFound")

\* C13: when the history or the reaction users cannot be fetched, the error
\* leaves split, conclude sends nothing, and the channel is not deleted by
\* the task and stays locked.
CaptureFailureKeepsChannel ==
    \A c \in Convs :
        err[c].site \in {"channel.history", "reaction.users"} =>
            /\ pc[c] = "raised"
            /\ chan[c].state \in {"live", "gone"}
            /\ chan[c].ovw = LockedScope
            /\ sent[c] = <<>>
            /\ file[c].state = "closed"

CaptureFailed ==
    /\ pc[1] = "raised"
    /\ err[1] = Error("reaction.users", "HTTPException")
    /\ chan[1].state = "live"
    /\ file[1].lines # <<>>

\* the task is past the lock step
Locked(c) ==
    \/ pc[c] \in {"save_messages", "history", "write", "conclude", "dest.send",
                  "fallback"}
    \/ file[c].state # "absent"

\* C15: after the lock the channel has exactly two overwrites, the default
\* role denied read and send and the bot with full control, and every user
\* is denied read.
LockIsHardReplace ==
    \A c \in Convs :
        Locked(c) =>
            /\ DOMAIN chan[c].ovw = {EVERYONE, ME}
            /\ chan[c].ovw[EVERYONE].read_messages = "F"
            /\ chan[c].ovw[EVERYONE].send_messages = "F"
            /\ chan[c].ovw[ME] = MY_PERMS
            /\ \A u \in Users : ~Effective(chan[c].ovw, u, "read_messages")

LockedAfterScope ==
    /\ pc[1] = "save_messages"
    /\ chan[1].state = "live"
    /\ {"alice", "bob", "carol"} \subseteq DOMAIN overwrites[1]

\* C17: the fallback goes to the webhook exactly when less than ten minutes
\* have passed since the start of the window, whatever the time passed.
FallbackByElapsed ==
    \A c \in Convs :
        \A i \in DOMAIN sent[c] :
            /\ sent[c][i].to = "webhook" => taken[c] < FreshSeconds
            /\ sent[c][i].to = "origin" => taken[c] >= FreshSeconds

\* what create_channel tells the requester when it gives up
ProvisionErrors == {"NO_CAT_ERROR", "NO_PERMS_ERROR"}

\* split returned because create_channel returned None
ProvisionFailed(c) ==
    /\ pc[c] = "done"
    /\ replies[c] # <<>>
    /\ Last(replies[c]) \in ProvisionErrors

\* split did nothing past create_channel
NothingStarted(c) ==
    /\ Len(replies[c]) = 1
    /\ listener[c].state = "off"
    /\ reason[c] = "none"
    /\ file[c].state = "absent"
    /\ sent[c] = <<>>
    /\ err[c] = NoError
    /\ chan[c].ovw = EmptyMap
    /\ chan[c].state # "deleted"

\* C14 as stated: after a failed provisioning the requester has the error,
\* nothing else was started and no conversation channel exists.
ProvisionFailureNoChannel ==
    \A c \in Convs :
        ProvisionFailed(c) => (NothingStarted(c) /\ chan[c].state = "none")

\* C14: a failed provisioning tells the requester and ends split with nothing
\* else started; no channel exists when the category was missing or the
\* creation denied, and the channel just created stays, with no overwrites,
\* when the overwrites were denied.
ProvisionFailureStops ==
    [][\A c \in Convs :
        /\ (pc[c] \in {"fetch_channels", "create_text_channel", "edit"}
                /\ pc'[c] = "done") =>
            /\ ProvisionFailed(c)'
            /\ NothingStarted(c)'
            /\ pc[c] # "edit" => chan'[c].state = "none"
            /\ pc[c] = "edit" => chan'[c].state = "live"
        /\ (replies'[c] # replies[c] /\ Last(replies'[c]) \in ProvisionErrors) =>
            pc'[c] = "done"
        /\ ProvisionFailed(c) =>
            /\ ProvisionFailed(c)'
            /\ NothingStarted(c)'
            /\ chan'[c].state = chan[c].state
      ]_vars

ChannelLeftBehind ==
    /\ pc[1] = "done"
    /\ replies[1] = <<"NO_PERMS_ERROR">>
    /\ chan[1].state = "live"
    /\ chan[1].ovw = EmptyMap

(***************************************************************************)
(* create_channel alone, over every originating map and member list.       *)
(***************************************************************************)
SplitAny(c) == SplitWith(c, ScopeRequests)

NextScope ==
    \/ SplitAny(1)
    \/ FetchChannels(1)
    \/ CreateTextChannel(1)
    \/ EditOverwrites(1)

ScopeSpec == Init /\ [][NextScope]_vars

\* the principals an overwrite map lets send
Senders(ovw) == {p \in DOMAIN ovw : ovw[p].send_messages = "T"}

\* C1: for a non-empty member list, the overwrites create_channel applies grant
\* send_messages to exactly the listed members, the invoker and the bot, and
\* hold send_messages False for every other principal of the originating map
\* and for the default role.
ScopeGrantsExactly ==
    \A c \in Convs :
        (pc[c] = "notify" /\ req[c].members # <<>>) =>
            LET allowed == Range(req[c].members) \cup {AUTHOR, ME}
                others == (DOMAIN req[c].origin \cup {EVERYONE}) \ allowed
            IN  /\ chan[c].ovw = overwrites[c]
                /\ Senders(chan[c].ovw) = allowed
                /\ \A p \in others :
                    /\ p \in DOMAIN chan[c].ovw
                    /\ chan[c].ovw[p].send_messages = "F"

\* a channel was provisioned for five members, with a role and the default
\* role allowed to send in the originating channel
ScopeApplied ==
    \E c \in Convs :
        /\ pc[c] = "notify"
        /\ Len(req[c].members) = NumMemberOpts
        /\ "bob" \in Range(req[c].members)
        /\ "role" \in DOMAIN req[c].origin
        /\ req[c].origin["role"].send_messages = "T"
        /\ EVERYONE \in DOMAIN req[c].origin
        /\ req[c].origin[EVERYONE].send_messages = "T"

(***************************************************************************)
(* save_messages alone, over channels of up to MaxHistory messages.        *)
(***************************************************************************)
\* who wrote what: the authors and contents take turns
AuthorAt(i) == <<"alice", "carol", ME>>[(i % 3) + 1]
ContentAt(i) == <<HELLO, SHOUT, MOVED>>[(i % 3) + 1]

\* a channel of n messages at the lock; the termination signal is message g
ArchiveHistory(n, g, k) ==
    [i \in 1..n |-> IF i = g THEN Message(i, ME, GOODBYE)
                    ELSE Message(i, AuthorAt(i + k), ContentAt(i + k))]

InitArchive ==
    /\ my_perms = MY_PERMS
    /\ pc = [c \in Convs |-> IF c = 1 THEN "save_messages" ELSE "idle"]
    /\ req = [c \in Convs |-> NoRequest]
    /\ overwrites = [c \in Convs |->
            IF c = 1 THEN Scope(EmptyMap, <<>>, AUTHOR) ELSE EmptyMap]
    /\ \E n \in 1..MaxHistory, k \in 0..2 :
        \E g \in {1, n} :
            chan = [c \in Convs |->
                IF c = 1
                THEN [state |-> "live", ovw |-> LockedScope,
                      hist |-> ArchiveHistory(n, g, k)]
                ELSE [state |-> "none", ovw |-> EmptyMap, hist |-> <<>>]]
    /\ listener = [c \in Convs |-> [state |-> "off", msg |-> NoMessage]]
    /\ idle = [c \in Convs |-> 0]
    /\ reason = [c \in Convs |-> IF c = 1 THEN "ExplicitSignal" ELSE "none"]
    /\ page = [c \in Convs |-> <<>>]
    /\ file = [c \in Convs |-> [state |-> "absent", lines |-> <<>>]]
    /\ sent = [c \in Convs |-> <<>>]
    /\ replies = [c \in Convs |-> IF c = 1 THEN <<"SPLIT_RESPONSE">> ELSE <<>>]
    /\ err = [c \in Convs |-> NoError]
    /\ perms = [c \in Convs |->
            IF c = 1 THEN [origin |-> AllPermissions, dest |-> AllPermissions]
            ELSE [origin |-> NoPermissions, dest |-> NoPermissions]]
    /\ taken = [c \in Convs |-> 0]

NextArchive ==
    \/ SaveOpen(1)
    \/ SaveHistory(1)
    \/ SaveMessage(1)
    \/ SaveEnd(1)

ArchiveSpec == InitArchive /\ [][NextArchive]_vars

\* C3: save_messages writes no record for a termination signal, exactly N
\* records for the N other messages of the channel, and one terminator line
\* after them.
ArchiveCounts ==
    \A c \in Convs :
        pc[c] = "conclude" =>
            LET lines == file[c].lines
            IN  /\ Len(Records(lines)) = Len(Genuine(chan[c].hist))
                /\ \A i \in DOMAIN lines :
                    lines[i].line = SEPARATOR =>
                        ~IsTermination(Message(lines[i].entry.id,
                                lines[i].entry.author, lines[i].entry.text))
                /\ Len(Terminators(lines)) = 1
                /\ lines[Len(lines)].line = TERMINATOR

\* C4: every message that is no termination signal is in the archive exactly
\* once, in creation order: the archive is the history of the channel.
NoMessageLoss ==
    \A c \in Convs :
        pc[c] = "conclude" =>
            LET records == Records(file[c].lines)
                genuine == Genuine(chan[c].hist)
            IN  [i \in DOMAIN records |-> records[i].entry]
                    = [i \in DOMAIN genuine |-> format_message(genuine[i])]

(***************************************************************************)
(* await_end under an endless conversation.  await_end never reads the     *)
(* history of the channel: past MaxMsgs messages the model lets a message  *)
(* reach the listener without recording it.                                *)
(***************************************************************************)
WatchRequests ==
    {Request(EmptyMap, m, "none", t) : m \in {<<>>, <<"bob">>}, t \in {1, 2}}

SplitWatched(c) == SplitWith(c, WatchRequests)

\* one more message in a channel that already holds MaxMsgs of them
Unrecorded(c) ==
    /\ Len(chan[c].hist) >= MaxMsgs
    /\ \E who \in {"alice", "carol"}, content \in {HELLO, SHOUT} :
        /\ CanSend(c, who)
        /\ Heard(c, Message(Len(chan[c].hist) + 1, who, content))
    /\ UNCHANGED <<my_perms, perms, taken, pc, req, overwrites, chan, idle, reason, page, file, sent,
                   replies, err>>

Inbound(c) == UserPost(c) \/ Exit(c) \/ Unrecorded(c)

NextWatch ==
    \/ SplitWatched(1)
    \/ FetchChannels(1)
    \/ CreateTextChannel(1)
    \/ EditOverwrites(1)
    \/ NotifyMembers(1)
    \/ UserPost(1)
    \/ Exit(1)
    \/ Unrecorded(1)
    \/ ExternalDelete(1)
    \/ Tick(1)
    \/ TimeoutError(1)
    \/ SendGoodbye(1)
    \/ Received(1)

\* the event loop runs a task that can run, timers expire, and the calls to
\* the platform return
WatchSpec ==
    /\ Init
    /\ [][NextWatch]_vars
    /\ WF_vars(NotifyMembers(1))
    /\ WF_vars(Tick(1))
    /\ WF_vars(TimeoutError(1))
    /\ WF_vars(SendGoodbye(1))
    /\ WF_vars(Received(1))

Resolved(c) == reason[c] # "none"

\* C6 as stated: the wait of a provisioned conversation resolves whatever
\* messages arrive (unless the channel is deleted under the watcher).
WaitResolves ==
    \A c \in {1} :
        (pc[c] = "await") ~> (Resolved(c) \/ chan[c].state = "gone")

\* C6, amended: the wait of a provisioned conversation resolves once no
\* further message arrives in the channel (unless the channel is deleted
\* under the watcher).
WaitResolvesOnceQuiet ==
    (<>[][~Inbound(1)]_vars) =>
        ((pc[1] = "await") ~> (Resolved(1) \/ chan[1].state = "gone"))

\* the wait was re-armed by messages and then ran out
TimedOutAfterMessages ==
    /\ reason[1] = "Timeout"
    /\ Len(chan[1].hist) > MaxMsgs

(***************************************************************************)
(* notify_members alone, over every outcome of the two permission lookups. *)
(***************************************************************************)
NotifyRequests ==
    {Request(o, m, d, 1) : o \in {EmptyMap, Put(EmptyMap, "carol", ReadSend)},
                           m \in {<<>>, <<"bob">>}, d \in {"none", "dest"}}

SplitNotified(c) == SplitWith(c, NotifyRequests)

NotifyAny(c) == NotifyWith(c, Lookups)

NextNotify ==
    \/ SplitNotified(1)
    \/ FetchChannels(1)
    \/ CreateTextChannel(1)
    \/ EditOverwrites(1)
    \/ NotifyAny(1)

NotifySpec == Init /\ [][NextNotify]_vars

\* the bot cannot send a file there
Lacking(p) == ~p.send_messages \/ ~p.read_messages \/ ~p.attach_files

\* C18: notify_members sends the warning exactly when the bot lacks one of
\* send, read and attach-files in the originating channel and also in the
\* destination, which is the originating channel when none was given.
WarningIffNeither ==
    \A c \in Convs :
        /\ "PERMS_WARNING" \in Range(replies[c]) => pc[c] = "await"
        /\ pc[c] = "await" =>
            /\ req[c].dest = "none" => perms[c].dest = perms[c].origin
            /\ "PERMS_WARNING" \in Range(replies[c])
                    <=> (Lacking(perms[c].origin) /\ Lacking(perms[c].dest))

WarnedWithoutAttach ==
    /\ pc[1] = "await"
    /\ req[1].dest = "dest"
    /\ perms[1].origin = Permissions(TRUE, TRUE, FALSE)
    /\ ~perms[1].dest.send_messages
    /\ "PERMS_WARNING" \in Range(replies[1])

(***************************************************************************)
(* Two /split tasks on the one event loop: every await of a task is a      *)
(* point where the other task, or a message in either channel, may come    *)
(* in between.                                                             *)
(***************************************************************************)
Tasks == {1, 2}

ConcRequests == {Request(EmptyMap, <<"bob">>, "none", 1)}

SplitConc(c) == SplitWith(c, ConcRequests)

Chat(c) ==
    /\ Len(chan[c].hist) < MaxConcMsgs
    /\ UserPostBy(c, {"alice"}, {HELLO})

ExitSoon(c) ==
    /\ Len(chan[c].hist) < MaxConcMsgs
    /\ Exit(c)

\* the fallback of a conversation that took five minutes
SendFallbackSoon(c) == SendFallbackAfter(c, {300})

NextConc ==
    \E c \in Tasks :
        \/ SplitConc(c)
        \/ FetchChannels(c)
        \/ CreateTextChannel(c)
        \/ EditOverwrites(c)
        \/ NotifyMembers(c)
        \/ Chat(c)
        \/ ExitSoon(c)
        \/ Tick(c)
        \/ TimeoutError(c)
        \/ SendGoodbye(c)
        \/ Received(c)
        \/ Lock(c)
        \/ SaveOpen(c)
        \/ SaveHistory(c)
        \/ SaveMessage(c)
        \/ SaveEnd(c)
        \/ ConcludeDelete(c)
        \/ SendFallbackSoon(c)

ConcSpec == Init /\ [][NextConc]_vars

\* everything that belongs to one conversation
ConvState(c) ==
    <<pc[c], req[c], overwrites[c], chan[c], listener[c], idle[c], reason[c],
      page[c], file[c], sent[c], replies[c], err[c], perms[c], taken[c]>>

\* C16: concurrent conversations are isolated: a step of one task, or a
\* message in one channel, changes nothing of any other conversation (its
\* watcher, its channel, its archive), and the module-level MY_PERMS is never
\* modified.
Isolated ==
    [][/\ \A c \in Convs, d \in Convs :
            (c # d /\ ConvState(c)' # ConvState(c)) => ConvState(d)' = ConvState(d)
       /\ my_perms = MY_PERMS
       /\ my_perms' = MY_PERMS
      ]_vars

QuietBesideConcluded ==
    /\ pc[1] = "await"
    /\ listener[1].state = "armed"
    /\ chan[1].state = "live"
    /\ chan[1].hist = <<>>
    /\ chan[2].hist # <<>>
    /\ chan[2].state = "deleted"
    /\ pc[2] = "done"

====
